---- MODULE Spec2Model ----
(***************************************************************************)
(* Model of the background-check bot (src/index.js): the rate-limit-safe   *)
(* GET with its process-wide cache (safeAxiosGet), the username lookup     *)
(* (getUserId), the three-way fan-out joined by Promise.all and the reply  *)
(* of the interactionCreate handler.                                       *)
(*                                                                         *)
(* Node runs one macrotask at a time: every action below is one macrotask  *)
(* (an incoming interaction, the arrival of an HTTP response, a timer      *)
(* firing) together with all the synchronous code and microtasks that it   *)
(* triggers, up to the next await of a network call or timer.              *)
(***************************************************************************)
EXTENDS Integers, Sequences, FiniteSets, TLC

\* ---------------------------------------------------------------- bounds
MaxFaults == 3      \* rate-limit signals and failures the API injects into GETs
MaxLookups == 3     \* the count of username lookups saturates here
MaxDays == 2        \* timestamps given to calculateAccountAge span this many days
MaxSlack == 1       \* measured values lie this close to a threshold (or below 0)

\* ------------------------------------------------------ program constants
retries == 3        \* safeAxiosGet default parameter
delay == 3000       \* safeAxiosGet default parameter (ms)
lookupDelay == 3000 \* getUserId backoff (ms)
minAge == 90
minFriends == 20
minGroups == 30
MsPerDay == 86400000

\* ------------------------------------------------------------ environment
Checks == {1, 2}     \* the interactions handled during one process life
Solo == {1}          \* the interaction of the single-interaction specification
Usernames == {"alice", "bob"}
UserIds == {1, 2}
Kinds == <<"details", "friends", "groups">>
KindSet == {Kinds[n] : n \in 1..Len(Kinds)}
Urls == KindSet \X UserIds
NowMs == 2 * MsPerDay
\* the payload of the n-th successful response for a url (the account changes
\* over time): a creation time (ms), or the length of a list
Body(kind, n) ==
    IF kind = "details" THEN n * (MsPerDay \div 2) + 1
    ELSE IF kind = "friends" THEN minFriends - 2 + n
    ELSE minGroups - 2 + n

NoUrl == <<"none", 0>>
NoResponse == [url |-> NoUrl, body |-> 0]
NoError == [kind |-> "none", url |-> NoUrl, username |-> "", cause |-> "none",
            code |-> 0]
NoEmbed == [title |-> 0, accountAge |-> 0, friendsCount |-> 0, groupsCount |-> 0,
            ageMet |-> FALSE, friendsMet |-> FALSE, groupsMet |-> FALSE,
            passed |-> FALSE]

VARIABLES
    cache,      \* the global Map: a function from the urls present to responses
    handler,    \* per interaction: position in the interactionCreate handler
    fetch,      \* per interaction and kind: the safeAxiosGet call of the fan-out
    issued,     \* per url: axios.get calls issued so far                 (history)
    succeeded,  \* per url: axios.get calls that returned a response      (history)
    overlapped, \* per url: some call started while another was in progress (history)
    faults,     \* rate-limit signals and failures injected into GETs so far
    evaluation  \* arguments and results of the two pure functions, when they
                \* are run on their own (PureSpec)

vars == <<cache, handler, fetch, issued, succeeded, overlapped, faults, evaluation>>


\* ------------------------------------------------------------------ errors
\* axios rejects a GET/POST whose response status is not 2xx (err.response.status)
AxiosError(url, status) ==
    [kind |-> "AxiosError", url |-> url, username |-> "", cause |-> "none",
     code |-> status]
\* line 53: new Error(`Failed after ${retries} retries for URL: ${url}`)
FailedAfterRetries(url, n) ==
    [kind |-> "FailedAfterRetries", url |-> url, username |-> "", cause |-> "none",
     code |-> n]
\* line 66: new Error(`User "${username}" not found`)
UserNotFound(username) ==
    [kind |-> "UserNotFound", url |-> NoUrl, username |-> username, cause |-> "none",
     code |-> 0]
\* line 76: new Error(`Failed to get user ID for "${username}": ${err.message}`)
FailedToGetUserId(username, err) ==
    [kind |-> "FailedToGetUserId", url |-> NoUrl, username |-> username,
     cause |-> err.kind, code |-> err.code]
\* lines 45 and 71: err.response && err.response.status === 429
\* (an error thrown by the code itself has no response: its code is 0)
IsRateLimitAnyStatus(err) == err.kind = "AxiosError"
IsRateLimit(err) == err.kind = "AxiosError" /\ err.code = 429

\* ------------------------------------------------------------------- cache
CacheHasNever(c, url) == FALSE
CacheHas(c, url) == url \in DOMAIN c
CacheGet(c, url) == c[url]
CacheSetDropped(c, url, response) == c
CacheSetEvicting(c, url, response) == [u \in {url} |-> response]
CacheSet(c, url, response) ==
    [u \in (DOMAIN c) \cup {url} |-> IF u = url THEN response ELSE c[u]]

\* ------------------------------------------------------------ safeAxiosGet
\* One call of safeAxiosGet: pc is "idle" before the call, "await" while
\* awaiting axios.get, "sleep" while awaiting the backoff timer, and
\* "returned" or "thrown" once it has settled.  i is the loop counter.
\* History: calls (axios.get calls issued), waits (backoff timers started)
\* and last (status of the last response).
NewCall(url) ==
    [pc |-> "idle", url |-> url, i |-> 0, calls |-> 0, waits |-> 0, last |-> 0,
     res |-> NoResponse, err |-> NoError]

\* variants of LoopHead: one more round of the loop; and a call that, while
\* another call for its url awaits axios.get, waits instead of calling itself
LoopHeadOffByOne(t, c) ==
    IF t.i <= retries
    THEN IF CacheHas(c, t.url)
         THEN [t EXCEPT !.pc = "returned", !.res = CacheGet(c, t.url)]
         ELSE [t EXCEPT !.pc = "await", !.calls = @ + 1]
    ELSE [t EXCEPT !.pc = "thrown", !.err = FailedAfterRetries(t.url, retries)]
LoopHeadShared(t, c) ==
    IF CacheHas(c, t.url)
    THEN [t EXCEPT !.pc = "returned", !.res = CacheGet(c, t.url)]
    ELSE IF \E d \in Checks : fetch[d][t.url[1]].url = t.url
                              /\ fetch[d][t.url[1]].pc = "await"
    THEN [t EXCEPT !.pc = "sleep"]
    ELSE [t EXCEPT !.pc = "await", !.calls = @ + 1]

\* variant of LoopHead: the cache is consulted by the first attempt only
LoopHeadCheckOnce(t, c) ==
    IF t.i < retries
    THEN IF t.i = 0 /\ CacheHas(c, t.url)
         THEN [t EXCEPT !.pc = "returned", !.res = CacheGet(c, t.url)]
         ELSE [t EXCEPT !.pc = "await", !.calls = @ + 1]
    ELSE [t EXCEPT !.pc = "thrown", !.err = FailedAfterRetries(t.url, retries)]

\* lines 35-41 and 53: the loop test, then the cache check, then axios.get
LoopHead(t, c) ==
    IF t.i < retries
    THEN IF CacheHas(c, t.url)
         THEN [t EXCEPT !.pc = "returned", !.res = CacheGet(c, t.url)]
         ELSE [t EXCEPT !.pc = "await", !.calls = @ + 1]
    ELSE [t EXCEPT !.pc = "thrown", !.err = FailedAfterRetries(t.url, retries)]

\* variant of OnResponse: the response of a call whose interaction has been
\* answered already is dropped, and the call aborted
OnResponseAborting(t, out) ==
    IF \E c \in Checks : handler[c].replies # <<>> /\ fetch[c][t.url[1]] = t
    THEN [t EXCEPT !.pc = "thrown", !.last = out.status,
                   !.err = [NoError EXCEPT !.kind = "Aborted", !.url = t.url]]
    ELSE IF out.status = 200
    THEN [t EXCEPT !.pc = "returned", !.last = 200,
                   !.res = [url |-> t.url, body |-> out.body]]
    ELSE IF IsRateLimit(AxiosError(t.url, out.status))
    THEN [t EXCEPT !.pc = "sleep", !.last = out.status, !.waits = @ + 1]
    ELSE [t EXCEPT !.pc = "thrown", !.last = out.status,
                   !.err = AxiosError(t.url, out.status)]

\* lines 41-50: the awaited axios.get settles with a response of this status
OnResponse(t, out) ==
    IF out.status = 200
    THEN [t EXCEPT !.pc = "returned", !.last = 200,
                   !.res = [url |-> t.url, body |-> out.body]]
    ELSE IF IsRateLimit(AxiosError(t.url, out.status))
    THEN [t EXCEPT !.pc = "sleep", !.last = out.status, !.waits = @ + 1]
    ELSE [t EXCEPT !.pc = "thrown", !.last = out.status,
                   !.err = AxiosError(t.url, out.status)]

\* lines 47 and 35: the backoff timer fires, i++ and the loop goes round
OnTimer(t, c) == LoopHead([t EXCEPT !.i = @ + 1], c)

\* --------------------------------------------------------------- getUserId
\* lines 61-77: what one lookup does with the response of axios.post
GetUserIdOn(username, out) ==
    LET thrown == IF out.status = 200
                  THEN UserNotFound(username)         \* line 66, inside the try
                  ELSE AxiosError(NoUrl, out.status)
    IN  IF out.status = 200 /\ Len(out.data) # 0
        THEN [tag |-> "return", id |-> out.data[1], err |-> NoError]
        ELSE IF IsRateLimit(thrown)
        THEN [tag |-> "retry", id |-> 0, err |-> NoError]
        ELSE [tag |-> "throw", id |-> 0, err |-> FailedToGetUserId(username, thrown)]

\* ------------------------------------------------- metrics and the embed
getUserDetails(res) == [name |-> res.url[2], created |-> res.body]
getFriendsCount(res) == res.body
getGroupsCount(res) == res.body

Abs(x) == IF x < 0 THEN -x ELSE x
\* variant: whole days by truncation
calculateAccountAgeFloor(createdDate, now) == Abs(now - createdDate) \div MsPerDay
calculateAccountAge(createdDate, now) ==
    LET diff == Abs(now - createdDate)
    IN  (diff \div MsPerDay) + (IF diff % MsPerDay = 0 THEN 0 ELSE 1)

\* variants: strict comparisons; an overall verdict that leaves the groups out
createResultsEmbedStrict(username, accountAge, friendsCount, groupsCount) ==
    LET ageMet == accountAge > minAge
        friendsMet == friendsCount > minFriends
        groupsMet == groupsCount > minGroups
    IN  [title |-> username, accountAge |-> accountAge,
         friendsCount |-> friendsCount, groupsCount |-> groupsCount,
         ageMet |-> ageMet, friendsMet |-> friendsMet, groupsMet |-> groupsMet,
         passed |-> ageMet /\ friendsMet /\ groupsMet]
createResultsEmbedTwo(username, accountAge, friendsCount, groupsCount) ==
    LET ageMet == accountAge >= minAge
        friendsMet == friendsCount >= minFriends
        groupsMet == groupsCount >= minGroups
    IN  [title |-> username, accountAge |-> accountAge,
         friendsCount |-> friendsCount, groupsCount |-> groupsCount,
         ageMet |-> ageMet, friendsMet |-> friendsMet, groupsMet |-> groupsMet,
         passed |-> ageMet /\ friendsMet]
createResultsEmbed(username, accountAge, friendsCount, groupsCount) ==
    LET ageMet == accountAge >= minAge
        friendsMet == friendsCount >= minFriends
        groupsMet == groupsCount >= minGroups
    IN  [title |-> username, accountAge |-> accountAge,
         friendsCount |-> friendsCount, groupsCount |-> groupsCount,
         ageMet |-> ageMet, friendsMet |-> friendsMet, groupsMet |-> groupsMet,
         passed |-> ageMet /\ friendsMet /\ groupsMet]

\* ------------------------------------------------------------- Promise.all
\* variant of PromiseAll: one that settles only when every call has settled
Settled(ts) == \A k \in KindSet : ts[k].pc \in {"returned", "thrown"}
PromiseAllWaits(ts) ==
    IF ~Settled(ts) THEN [state |-> "pending", err |-> NoError]
    ELSE IF \E k \in KindSet : ts[k].pc = "thrown"
    THEN [state |-> "rejected",
          err |-> ts[CHOOSE k \in KindSet : ts[k].pc = "thrown"].err]
    ELSE [state |-> "fulfilled", err |-> NoError]

\* lines 168-172 over the three calls ts of one interaction: rejected with the
\* error of a call that has thrown, fulfilled once all three have returned
PromiseAll(ts) ==
    IF \E k \in KindSet : ts[k].pc = "thrown"
    THEN LET n == CHOOSE n \in 1..Len(Kinds) :
                      /\ ts[Kinds[n]].pc = "thrown"
                      /\ \A m \in 1..(n - 1) : ts[Kinds[m]].pc # "thrown"
         IN  [state |-> "rejected", err |-> ts[Kinds[n]].err]
    ELSE IF \A k \in KindSet : ts[k].pc = "returned"
    THEN [state |-> "fulfilled", err |-> NoError]
    ELSE [state |-> "pending", err |-> NoError]

\* variant of EmbedReply: the second and third results of Promise.all taken
\* in the other order
EmbedReplySwapped(ts) ==
    LET userDetails == getUserDetails(ts["details"].res)
        friendsCount == getFriendsCount(ts["groups"].res)
        groupsCount == getGroupsCount(ts["friends"].res)
        accountAge == calculateAccountAge(userDetails.created, NowMs)
    IN  [kind |-> "embed", error |-> NoError,
         embed |-> createResultsEmbed(userDetails.name, accountAge,
                                      friendsCount, groupsCount)]

\* lines 174-177 and 180-182: the handler resumes once Promise.all has settled
EmbedReply(ts) ==
    LET userDetails == getUserDetails(ts["details"].res)
        friendsCount == getFriendsCount(ts["friends"].res)
        groupsCount == getGroupsCount(ts["groups"].res)
        accountAge == calculateAccountAge(userDetails.created, NowMs)
    IN  [kind |-> "embed", error |-> NoError,
         embed |-> createResultsEmbed(userDetails.name, accountAge,
                                      friendsCount, groupsCount)]
ErrorReply(err) == [kind |-> "error", error |-> err, embed |-> NoEmbed]
\* the error a call of the interaction (deferReply, editReply) rejects with
DiscordError == [NoError EXCEPT !.kind = "DiscordError"]

\* the kinds of seq, in its order, as a set
Range(seq) == {seq[n] : n \in 1..Len(seq)}
\* history: the calls of ts that have settled and are not yet in order, appended
\* in the order of Kinds (only calls served from the cache settle together)
Settle(order, ts) ==
    LET IsNew(k) == ts[k].pc \in {"returned", "thrown"} /\ k \notin Range(order)
    IN  order \o SelectSeq(Kinds, IsNew)

\* the handler h of an interaction after its calls have become ts
Resume(h, ts) ==
    LET p == PromiseAll(ts)
        g == [h EXCEPT !.order = Settle(@, ts)]
    IN  IF g.pc # "promiseAll" \/ p.state = "pending" THEN g
        ELSE IF p.state = "fulfilled"
        THEN [g EXCEPT !.pc = "editReply", !.replies = Append(@, EmbedReply(ts))]
        ELSE [g EXCEPT !.pc = "editReplyError",
                       !.replies = Append(@, ErrorReply(p.err))]


\* ------------------------------------------------------------ initial state
\* pc is the await the handler is suspended at: "deferReply" (line 160),
\* "getUserId" (line 165), "retryWait" (line 73), "promiseAll" (line 168),
\* "editReply" (line 177, the embed) or "editReplyError" (line 181, in the
\* catch); it is "done" once the handler has returned and "rejected" once its
\* promise has rejected.  History: lookups (axios.post
\* calls issued, saturating at MaxLookups), answer (what the last lookup got),
\* replies (the editReply calls made), started (the urls of the fan-out in
\* the order their calls were made) and order (the kinds of the fan-out's
\* calls in the order they settled).
NewHandler ==
    [pc |-> "idle", username |-> "", userId |-> 0, lookups |-> 0,
     answer |-> "none", replies |-> <<>>, started |-> <<>>, order |-> <<>>]

\* nothing to evaluate: the pure functions run inside the handler
NoEvaluation ==
    [title |-> 0, accountAge |-> 0, friendsCount |-> 0, groupsCount |-> 0,
     createdDate |-> 0, now |-> 0, embedDone |-> TRUE, embed |-> NoEmbed,
     ageDone |-> TRUE, age |-> 0]

Init ==
    /\ cache = <<>>
    /\ handler = [c \in Checks |-> NewHandler]
    /\ fetch = [c \in Checks |-> [k \in KindSet |-> NewCall(NoUrl)]]
    /\ issued = [u \in Urls |-> 0]
    /\ succeeded = [u \in Urls |-> 0]
    /\ overlapped = [u \in Urls |-> FALSE]
    /\ faults = 0
    /\ evaluation = NoEvaluation

\* responses of the API
Statuses == {200, 429, 500}
GetOutcome(url, status, n) ==
    [status |-> status, body |-> IF status = 200 THEN Body(url[1], n) ELSE 0]
LookupOutcomes ==
    {[status |-> 200, data |-> <<id>>] : id \in UserIds}
        \cup {[status |-> 200, data |-> <<>>],
              [status |-> 429, data |-> <<>>], [status |-> 500, data |-> <<>>]}

Min(a, b) == IF a < b THEN a ELSE b

\* ------------------------------------------------------------------ actions
\* lines 155-160: a /bgc interaction arrives; the handler awaits deferReply
InteractionCreate(c, username) ==
    /\ handler[c].pc = "idle"
    /\ \A d \in Checks : d < c => handler[d].pc # "idle"
    /\ handler' = [handler EXCEPT ![c].pc = "deferReply", ![c].username = username]
    /\ UNCHANGED <<cache, fetch, issued, succeeded, overlapped, faults, evaluation>>

\* lines 160-165 and 61: deferReply resolves; getUserId posts the lookup
DeferReplyDone(c) ==
    /\ handler[c].pc = "deferReply"
    /\ handler' = [handler EXCEPT ![c].pc = "getUserId", ![c].lookups = 1]
    /\ UNCHANGED <<cache, fetch, issued, succeeded, overlapped, faults, evaluation>>

\* line 160: deferReply rejects; the await is outside the try, so the
\* handler's promise rejects and nothing else of the handler runs
DeferReplyRejected(c) ==
    /\ handler[c].pc = "deferReply"
    /\ handler' = [handler EXCEPT ![c].pc = "rejected"]
    /\ UNCHANGED <<cache, fetch, issued, succeeded, overlapped, faults, evaluation>>

\* lines 177-182: the editReply that sent the embed settles; when it resolves
\* the handler returns, when it rejects the catch calls editReply again, with
\* the message of that error
EditReplySettled(c, ok) ==
    /\ handler[c].pc = "editReply"
    /\ handler' = [handler EXCEPT
           ![c] = IF ok THEN [@ EXCEPT !.pc = "done"]
                  ELSE [@ EXCEPT !.pc = "editReplyError",
                                 !.replies = Append(@, ErrorReply(DiscordError))]]
    /\ UNCHANGED <<cache, fetch, issued, succeeded, overlapped, faults, evaluation>>

\* lines 181-183: the editReply of the catch settles; when it resolves the
\* handler returns, when it rejects the handler's promise rejects
ErrorReplySettled(c, ok) ==
    /\ handler[c].pc = "editReplyError"
    /\ handler' = [handler EXCEPT ![c].pc = IF ok THEN "done" ELSE "rejected"]
    /\ UNCHANGED <<cache, fetch, issued, succeeded, overlapped, faults, evaluation>>

\* lines 168-172: the three calls of the fan-out of interaction c, each run up
\* to its first await
SameUrl(c, url, pcs) ==
    {d \in Checks \ {c} : fetch[d][url[1]].url = url /\ fetch[d][url[1]].pc \in pcs}
FanOut(c, id) == [k \in KindSet |-> LoopHead(NewCall(<<k, id>>), cache)]
FanOutOrder(id) == [n \in 1..Len(Kinds) |-> <<Kinds[n], id>>]

\* what a lookup got: its status, and whether the result set was empty
Answer(out) ==
    IF out.status = 200 THEN (IF Len(out.data) = 0 THEN "empty" ELSE "found")
    ELSE IF out.status = 429 THEN "ratelimited" ELSE "failed"

\* variant of LookupResponse: a lookup routed through the cache, which stores
\* the id it found under the lookup's url
LookupUrl == <<"usernames", 0>>
LookupResponseCached(c, out) ==
    /\ handler[c].pc = "getUserId"
    /\ LET r == GetUserIdOn(handler[c].username, out)
           ts == FanOut(c, r.id)
           h == [handler[c] EXCEPT !.answer = Answer(out)]
       IN  IF r.tag = "return"
           THEN /\ fetch' = [fetch EXCEPT ![c] = ts]
                /\ handler' = [handler EXCEPT
                       ![c] = Resume([h EXCEPT !.pc = "promiseAll", !.userId = r.id,
                                               !.started = FanOutOrder(r.id)],
                                     ts)]
                /\ issued' = [u \in Urls |->
                       IF u[2] = r.id /\ ts[u[1]].pc = "await"
                       THEN issued[u] + 1 ELSE issued[u]]
                /\ overlapped' = overlapped
                /\ cache' = CacheSet(cache, LookupUrl, [url |-> LookupUrl, body |-> r.id])
           ELSE IF r.tag = "retry"
           THEN /\ handler' = [handler EXCEPT ![c] = [h EXCEPT !.pc = "retryWait"]]
                /\ UNCHANGED <<cache, fetch, issued, overlapped>>
           ELSE /\ handler' = [handler EXCEPT
                       ![c] = [h EXCEPT !.pc = "editReplyError",
                                        !.replies = Append(@, ErrorReply(r.err))]]
                /\ UNCHANGED <<cache, fetch, issued, overlapped>>
    /\ UNCHANGED <<succeeded, faults, evaluation>>

\* lines 61-77 and 165-183: the lookup's response arrives
LookupResponse(c, out) ==
    /\ handler[c].pc = "getUserId"
    /\ LET r == GetUserIdOn(handler[c].username, out)
           ts == FanOut(c, r.id)
           h == [handler[c] EXCEPT !.answer = Answer(out)]
       IN  IF r.tag = "return"
           THEN /\ fetch' = [fetch EXCEPT ![c] = ts]
                /\ handler' = [handler EXCEPT
                       ![c] = Resume([h EXCEPT !.pc = "promiseAll", !.userId = r.id,
                                               !.started = FanOutOrder(r.id)],
                                     ts)]
                /\ issued' = [u \in Urls |->
                       IF u[2] = r.id /\ ts[u[1]].pc = "await"
                       THEN issued[u] + 1 ELSE issued[u]]
                /\ overlapped' = [u \in Urls |->
                       \/ overlapped[u]
                       \/ /\ u[2] = r.id
                          /\ SameUrl(c, u, {"await", "sleep"}) # {}]
           ELSE IF r.tag = "retry"
           THEN /\ handler' = [handler EXCEPT ![c] = [h EXCEPT !.pc = "retryWait"]]
                /\ UNCHANGED <<fetch, issued, overlapped>>
           ELSE /\ handler' = [handler EXCEPT
                       ![c] = [h EXCEPT !.pc = "editReplyError",
                                        !.replies = Append(@, ErrorReply(r.err))]]
                /\ UNCHANGED <<fetch, issued, overlapped>>
    /\ UNCHANGED <<cache, succeeded, faults, evaluation>>

\* lines 73-74: the lookup's backoff timer fires; getUserId calls itself
LookupTimer(c) ==
    /\ handler[c].pc = "retryWait"
    /\ handler' = [handler EXCEPT ![c].pc = "getUserId",
                                  ![c].lookups = Min(@ + 1, MaxLookups)]
    /\ UNCHANGED <<cache, fetch, issued, succeeded, overlapped, faults, evaluation>>

\* lines 41-50: the response of an axios.get arrives
GetResponse(c, k, status) ==
    /\ fetch[c][k].pc = "await"
    /\ status # 200 => faults < MaxFaults
    /\ faults' = IF status # 200 THEN faults + 1 ELSE faults
    /\ LET url == fetch[c][k].url
           out == GetOutcome(url, status, succeeded[url] + 1)
           t == OnResponse(fetch[c][k], out)
           ts == [fetch[c] EXCEPT ![k] = t]
       IN  /\ fetch' = [fetch EXCEPT ![c] = ts]
           /\ handler' = [handler EXCEPT ![c] = Resume(@, ts)]
           /\ cache' = IF t.pc = "returned" THEN CacheSet(cache, t.url, t.res)
                       ELSE cache
           /\ succeeded' = IF out.status = 200
                           THEN [succeeded EXCEPT ![t.url] = @ + 1] ELSE succeeded
    /\ UNCHANGED <<issued, overlapped, evaluation>>

\* lines 47, 35-41 and 53: the backoff timer of a safeAxiosGet call fires
GetTimer(c, k) ==
    /\ fetch[c][k].pc = "sleep"
    /\ LET t == OnTimer(fetch[c][k], cache)
           ts == [fetch[c] EXCEPT ![k] = t]
       IN  /\ fetch' = [fetch EXCEPT ![c] = ts]
           /\ handler' = [handler EXCEPT ![c] = Resume(@, ts)]
           /\ issued' = IF t.pc = "await" THEN [issued EXCEPT ![t.url] = @ + 1]
                        ELSE issued
    /\ UNCHANGED <<cache, succeeded, overlapped, faults, evaluation>>

\* One interaction, with every response the API can give.
Next ==
    \/ \E c \in Solo, username \in Usernames : InteractionCreate(c, username)
    \/ \E c \in Solo : DeferReplyDone(c)
    \/ \E c \in Solo : DeferReplyRejected(c)
    \/ \E c \in Solo, ok \in BOOLEAN : EditReplySettled(c, ok)
    \/ \E c \in Solo, ok \in BOOLEAN : ErrorReplySettled(c, ok)
    \/ \E c \in Solo, out \in LookupOutcomes : LookupResponse(c, out)
    \/ \E c \in Solo : LookupTimer(c)
    \/ \E c \in Solo, k \in KindSet :
           \E status \in Statuses : GetResponse(c, k, status)
    \/ \E c \in Solo, k \in KindSet : GetTimer(c, k)

Spec == Init /\ [][Next]_vars

\* The handler's promise is not handled: once it has rejected (deferReply, or
\* the editReply of the catch, rejected) the runtime may end the process, and
\* then no response or timer is processed any more.
Alive == \A c \in Checks : handler[c].pc # "rejected"

\* While the process is alive the API answers every request, every timer fires
\* and every call of the interaction settles.
Fairness ==
    \A c \in Solo :
        /\ WF_vars(Alive /\ (DeferReplyDone(c) \/ DeferReplyRejected(c)))
        /\ WF_vars(Alive /\ \E ok \in BOOLEAN : EditReplySettled(c, ok))
        /\ WF_vars(Alive /\ \E ok \in BOOLEAN : ErrorReplySettled(c, ok))
        /\ WF_vars(Alive /\ \E out \in LookupOutcomes : LookupResponse(c, out))
        /\ WF_vars(Alive /\ LookupTimer(c))
        /\ \A k \in KindSet :
               /\ WF_vars(Alive /\ \E status \in Statuses : GetResponse(c, k, status))
               /\ WF_vars(Alive /\ GetTimer(c, k))
FairSpec == Spec /\ Fairness

\* Concurrent interactions that share the cache; their lookups succeed and, being
\* lookups of one name, find one id, and their deferReply and editReply calls
\* resolve, so that every interleaving of their safeAxiosGet calls for the same
\* urls is covered.
FoundId == CHOOSE id \in UserIds : \A other \in UserIds : id <= other
FoundOutcomes == {out \in LookupOutcomes : out.status = 200 /\ out.data = <<FoundId>>}
NextConcurrent ==
    \/ \E c \in Checks : InteractionCreate(c, "alice")
    \/ \E c \in Checks : DeferReplyDone(c)
    \/ \E c \in Checks : EditReplySettled(c, TRUE)
    \/ \E c \in Checks : ErrorReplySettled(c, TRUE)
    \/ \E c \in Checks, out \in FoundOutcomes : LookupResponse(c, out)
    \/ \E c \in Checks, k \in KindSet :
           \E status \in Statuses : GetResponse(c, k, status)
    \/ \E c \in Checks, k \in KindSet : GetTimer(c, k)

SpecConcurrent == Init /\ [][NextConcurrent]_vars

\* Concurrent interactions whose lookups get every answer, while every
\* axios.get succeeds: the resolutions run against a cache that others fill.
NextResolve ==
    \/ \E c \in Checks, username \in Usernames : InteractionCreate(c, username)
    \/ \E c \in Checks : DeferReplyDone(c)
    \/ \E c \in Checks : DeferReplyRejected(c)
    \/ \E c \in Checks, ok \in BOOLEAN : EditReplySettled(c, ok)
    \/ \E c \in Checks, ok \in BOOLEAN : ErrorReplySettled(c, ok)
    \/ \E c \in Checks, out \in LookupOutcomes : LookupResponse(c, out)
    \/ \E c \in Checks : LookupTimer(c)
    \/ \E c \in Checks, k \in KindSet : GetResponse(c, k, 200)

SpecResolve == Init /\ [][NextResolve]_vars

\* ---------------------------------------------- the pure functions alone
\* measured values: around a threshold, and counts below zero
Measured(threshold) == (threshold - MaxSlack)..(threshold + MaxSlack)
Counts(threshold) == Measured(threshold) \cup ((-MaxSlack)..(-1))
\* timestamps (ms): the day boundaries up to MaxDays and their neighbours
Timestamps ==
    {ms \in {d * MsPerDay + o : d \in 0..MaxDays, o \in {-1, 0, 1}} : ms >= 0}

PureInit ==
    /\ cache = <<>>
    /\ handler = [c \in Checks |-> NewHandler]
    /\ fetch = [c \in Checks |-> [k \in KindSet |-> NewCall(NoUrl)]]
    /\ issued = [u \in Urls |-> 0]
    /\ succeeded = [u \in Urls |-> 0]
    /\ overlapped = [u \in Urls |-> FALSE]
    /\ faults = 0
    /\ evaluation \in
           [title : UserIds, accountAge : Measured(minAge),
            friendsCount : Counts(minFriends), groupsCount : Counts(minGroups),
            createdDate : Timestamps, now : Timestamps,
            embedDone : {FALSE}, embed : {NoEmbed}, ageDone : {FALSE}, age : {0}]

\* lines 103-125: createResultsEmbed is called on the arguments
Evaluate ==
    /\ ~evaluation.embedDone
    /\ evaluation' = [evaluation EXCEPT
           !.embedDone = TRUE,
           !.embed = createResultsEmbed(evaluation.title, evaluation.accountAge,
                                        evaluation.friendsCount,
                                        evaluation.groupsCount)]
    /\ UNCHANGED <<cache, handler, fetch, issued, succeeded, overlapped, faults>>

\* lines 95-100: calculateAccountAge is called on the creation time
ComputeAge ==
    /\ ~evaluation.ageDone
    /\ evaluation' = [evaluation EXCEPT
           !.ageDone = TRUE,
           !.age = calculateAccountAge(evaluation.createdDate, evaluation.now)]
    /\ UNCHANGED <<cache, handler, fetch, issued, succeeded, overlapped, faults>>

NextPure == Evaluate \/ ComputeAge

PureSpec == PureInit /\ [][NextPure]_vars


\* ================================================================== claims
Call(c, k) == fetch[c][k]
CallSet == Checks \X KindSet
Finished(t) == t.pc \in {"returned", "thrown"}
\* the call of interaction c for kind k is made in this step
Starts(c, k) == fetch[c][k].pc = "idle" /\ fetch'[c][k].pc # "idle"

\* C1: one getUserId call issues at most two lookups: a lookup that is
\* rate-limited and then found returns the id, and once the second lookup too
\* has been answered with a rate limit (the second lookup is no longer
\* awaited) the call has failed instead of looking up a third time.
ResolverRetryBound ==
    \A c \in Checks :
        LET h == handler[c]
        IN  /\ h.lookups <= 2
            /\ h.answer = "found" => h.userId \in UserIds
            /\ (h.lookups = 2 /\ h.answer = "ratelimited" /\ h.pc # "getUserId") =>
                   (/\ h.pc \in {"editReplyError", "done", "rejected"}
                    /\ Len(h.replies) = 1 /\ h.replies[1].kind = "error")

\* C2: a safeAxiosGet call never issues more than `retries` axios.get calls;
\* one whose every response was a rate limit, for a url that is still not
\* cached, has issued exactly `retries` of them and has thrown the
\* failed-after-retries error that names its url.
RetryBound ==
    \A x \in CallSet :
        LET t == Call(x[1], x[2])
        IN  /\ t.calls <= retries
            /\ (Finished(t) /\ t.last = 429 /\ ~CacheHas(cache, t.url)) =>
                   /\ t.pc = "thrown"
                   /\ t.calls = retries
                   /\ t.err = FailedAfterRetries(t.url, retries)
            /\ t.err.kind = "FailedAfterRetries" => (t.calls = retries /\ t.last = 429)
RetryBoundWitness ==
    \E x \in CallSet :
        /\ Call(x[1], x[2]).pc = "thrown"
        /\ Call(x[1], x[2]).err.kind = "FailedAfterRetries"
        /\ Call(x[1], x[2]).calls = retries

\* C3 (as amended): when a call starts after the only other call for its url
\* has returned, it returns that call's response at once and issues no
\* axios.get; the axios.get calls issued for the url are those of the first
\* call, one plus the number of rate limits it received.
CacheIdempotence ==
    [][\A c \in Checks, d \in Checks, k \in KindSet :
          (/\ c # d
           /\ Starts(c, k)
           /\ fetch[d][k].pc = "returned"
           /\ fetch[d][k].url = fetch'[c][k].url
           /\ \A e \in Checks \ {c, d} : fetch[e][k].url # fetch[d][k].url)
          => /\ fetch'[c][k].pc = "returned"
             /\ fetch'[c][k].calls = 0
             /\ fetch'[c][k].res = fetch[d][k].res
             /\ fetch[d][k].calls = fetch[d][k].waits + 1
             /\ issued'[fetch[d][k].url] = fetch[d][k].calls]_vars
\* C3 (as claimed): ... exactly one axios.get is issued in total.
CacheIdempotenceOneCall ==
    [][\A c \in Checks, d \in Checks, k \in KindSet :
          (/\ c # d
           /\ Starts(c, k)
           /\ fetch[d][k].pc = "returned"
           /\ fetch[d][k].url = fetch'[c][k].url
           /\ \A e \in Checks \ {c, d} : fetch[e][k].url # fetch[d][k].url)
          => /\ fetch'[c][k].res = fetch[d][k].res
             /\ issued'[fetch[d][k].url] = 1]_vars
CacheIdempotenceWitness ==
    \E c \in Checks, d \in Checks, k \in KindSet :
        /\ c # d
        /\ Call(c, k).url = Call(d, k).url
        /\ Call(d, k).pc = "returned" /\ Call(d, k).calls = 2
        /\ Call(c, k).pc = "returned" /\ Call(c, k).calls = 0
        /\ Call(c, k).res = Call(d, k).res
        /\ issued[Call(c, k).url] = 2

\* C4: when the lookup gets an empty result set, getUserId fails with the
\* not-found error itself (not with the failure that wraps other upstream
\* errors), the lookup is not retried and none of the three calls is made.
NotFoundSurfaces ==
    \A c \in Checks :
        LET h == handler[c]
        IN  h.answer = "empty" =>
                /\ h.pc \in {"editReplyError", "done", "rejected"}
                /\ h.replies = <<ErrorReply(UserNotFound(h.username))>>
                /\ \A k \in KindSet : Call(c, k).pc = "idle"

\* C5: a call whose axios.get failed with a status other than 429 has thrown
\* that very failure: it started no backoff timer for it (its timers are those
\* of the rate limits before) and issues no further axios.get.
FailFast ==
    \A x \in CallSet :
        LET t == Call(x[1], x[2])
        IN  t.last \notin {0, 200, 429} =>
                /\ t.pc = "thrown"
                /\ t.err = AxiosError(t.url, t.last)
                /\ t.waits = t.calls - 1
                /\ t.i = t.calls - 1
FailFastWitness ==
    \E x \in CallSet :
        /\ Call(x[1], x[2]).last = 500
        /\ Call(x[1], x[2]).calls = retries
        /\ Call(x[1], x[2]).pc = "thrown"

FirstFailureWins ==
    [][\A c \in Checks :
          /\ \A k \in KindSet :
                 (/\ handler[c].pc = "promiseAll"
                  /\ fetch[c][k].pc # "thrown"
                  /\ fetch'[c][k].pc = "thrown")
                 => /\ handler'[c].pc = "editReplyError"
                    /\ handler'[c].replies = <<ErrorReply(fetch'[c][k].err)>>
          /\ (handler[c].replies # <<>> /\ handler[c].replies[1].kind = "error")
                 => handler'[c].replies = handler[c].replies
          /\ (handler[c].replies # <<>> /\ fetch'[c] # fetch[c])
                 => handler'[c].replies = handler[c].replies]_vars
FirstFailureWinsWitness ==
    \E c \in Checks :
        /\ Call(c, "details").pc = "returned"
        /\ Call(c, "friends").pc = "thrown"
        /\ Call(c, "friends").err.kind = "AxiosError"
        /\ Call(c, "groups").pc = "thrown"
        /\ handler[c].replies = <<ErrorReply(Call(c, "friends").err)>>

\* C8: a call that starts while another call for the same url is awaiting
\* axios.get, the url not being cached, issues its own axios.get: the cache is
\* checked when a call starts and populated only when a response arrives.
DuplicateFetchRace ==
    [][\A c \in Checks, d \in Checks, k \in KindSet :
          (/\ c # d
           /\ Starts(c, k)
           /\ fetch[d][k].pc = "await"
           /\ fetch[d][k].url = fetch'[c][k].url
           /\ ~CacheHas(cache, fetch[d][k].url))
          => /\ fetch'[c][k].pc = "await"
             /\ fetch'[c][k].calls = 1
             /\ issued'[fetch[d][k].url] = issued[fetch[d][k].url] + 1
             /\ cache' = cache]_vars
DuplicateFetchRaceWitness ==
    \E c \in Checks, d \in Checks, k \in KindSet :
        /\ c # d
        /\ Call(c, k).url = Call(d, k).url
        /\ Call(c, k).pc = "await" /\ Call(d, k).pc = "await"
        /\ issued[Call(c, k).url] = 2
        /\ ~CacheHas(cache, Call(c, k).url)
        /\ faults = 0

\* C9 (as amended): as long as no call for a url has started while another
\* call for it was in progress, at most one axios.get for that url has returned
\* a response; axios.get calls that were rate-limited or failed stored nothing
\* and may have been issued before it.
AtMostOnce ==
    \A u \in Urls : ~overlapped[u] => succeeded[u] <= 1
\* C9 (as claimed): ... at most one axios.get has been issued for that url.
AtMostOneRemoteCall ==
    \A u \in Urls : ~overlapped[u] => issued[u] <= 1
AtMostOnceWitness ==
    \E c \in Checks, d \in Checks, k \in KindSet :
        /\ c # d
        /\ Call(c, k).url = Call(d, k).url
        /\ Call(d, k).pc = "thrown"
        /\ Call(c, k).pc = "returned" /\ Call(c, k).calls = 1
        /\ ~overlapped[Call(c, k).url]
        /\ succeeded[Call(c, k).url] = 1

\* C10: every check that has begun (its lookup posted) eventually ends with a
\* reply, an embed or an error, even when the API rate-limits every request.
EventualCompletion ==
    \A c \in Solo : (handler[c].pc = "getUserId") ~> (handler[c].replies # <<>>)


\* C11: the overall verdict of an embed is passed exactly when its three
\* criteria are met: one criterion failing while the other two are met gives
\* an overall failure, and all three met give an overall pass.
OverallIffAll ==
    evaluation.embedDone /\ evaluation # NoEvaluation =>
        LET e == evaluation.embed
        IN  /\ e.passed <=> (e.ageMet /\ e.friendsMet /\ e.groupsMet)
            /\ (~e.ageMet /\ e.friendsMet /\ e.groupsMet) => ~e.passed
            /\ (e.ageMet /\ ~e.friendsMet /\ e.groupsMet) => ~e.passed
            /\ (e.ageMet /\ e.friendsMet /\ ~e.groupsMet) => ~e.passed
            /\ (evaluation.accountAge >= minAge /\ evaluation.friendsCount >= minFriends
                    /\ evaluation.groupsCount >= minGroups) => e.passed
OverallIffAllWitness ==
    /\ evaluation.embedDone /\ evaluation # NoEvaluation
    /\ evaluation.embed.ageMet /\ evaluation.embed.friendsMet
    /\ ~evaluation.embed.groupsMet /\ ~evaluation.embed.passed

\* C12: each criterion is met exactly when the measured value is at least its
\* threshold: a value equal to the threshold (90 days, 20 friends, 30 groups)
\* meets it and a value one below does not.
ThresholdInclusive ==
    evaluation.embedDone /\ evaluation # NoEvaluation =>
        LET e == evaluation.embed
        IN  /\ e.ageMet <=> evaluation.accountAge >= minAge
            /\ e.friendsMet <=> evaluation.friendsCount >= minFriends
            /\ e.groupsMet <=> evaluation.groupsCount >= minGroups
            /\ evaluation.accountAge = 90 => e.ageMet
            /\ evaluation.friendsCount = 20 => e.friendsMet
            /\ evaluation.groupsCount = 30 => e.groupsMet
            /\ evaluation.accountAge = 89 => ~e.ageMet
            /\ evaluation.friendsCount = 19 => ~e.friendsMet
            /\ evaluation.groupsCount = 29 => ~e.groupsMet
ThresholdInclusiveWitness ==
    /\ evaluation.embedDone /\ evaluation # NoEvaluation
    /\ evaluation.accountAge = 90 /\ evaluation.friendsCount = 20
    /\ evaluation.groupsCount = 30 /\ evaluation.embed.passed


\* C14: an evaluation given a negative friend count or a negative group count
\* is rejected before any criterion is evaluated: it produces no embed.
NegativeCountsRejected ==
    (/\ evaluation.embedDone /\ evaluation # NoEvaluation
     /\ (evaluation.friendsCount < 0 \/ evaluation.groupsCount < 0))
    => evaluation.embed = NoEmbed

\* C20: the account age is the ceiling of |now - created| / 86400000: the
\* least number of whole days that is not less than the difference; a
\* difference of a fraction of a day gives 1, an exact multiple of a day is
\* not rounded up.
AgeIsCeiling ==
    evaluation.ageDone /\ evaluation # NoEvaluation =>
        LET diff == IF evaluation.now >= evaluation.createdDate
                    THEN evaluation.now - evaluation.createdDate
                    ELSE evaluation.createdDate - evaluation.now
            age == evaluation.age
        IN  /\ age >= 0
            /\ age * MsPerDay >= diff
            /\ (age - 1) * MsPerDay < diff
            /\ (diff > 0 /\ diff < MsPerDay) => age = 1
            /\ \A d \in 0..(MaxDays + 1) : diff = d * MsPerDay => age = d
AgeIsCeilingWitness ==
    /\ evaluation.ageDone /\ evaluation # NoEvaluation
    /\ evaluation.createdDate - evaluation.now = MsPerDay + 1
    /\ evaluation.age = 2


\* C13: no step of a resolution (the lookup being posted, answered or retried)
\* changes the cache, and every resolution (every handler whose deferReply has
\* not rejected) posts its own lookup, whatever the cache holds and whatever
\* other resolutions of the same name have found.
ResolverBypassesCache ==
    [][\A c \in Checks :
          (/\ handler[c].pc \in {"deferReply", "getUserId", "retryWait"}
           /\ handler'[c] # handler[c])
          => /\ cache' = cache
             /\ (handler[c].pc \in {"deferReply", "retryWait"}
                 /\ handler'[c].pc # "rejected") =>
                    /\ handler'[c].pc = "getUserId"
                    /\ handler'[c].lookups = Min(handler[c].lookups + 1, MaxLookups)]_vars
ResolverBypassesCacheWitness ==
    \E c \in Checks, d \in Checks :
        /\ c # d
        /\ handler[c].username = handler[d].username
        /\ handler[d].pc = "done" /\ handler[d].answer = "found"
        /\ DOMAIN cache = {<<k, handler[d].userId>> : k \in KindSet}
        /\ handler[c].pc = "done" /\ handler[c].answer = "empty"
        /\ handler[c].lookups = 2

\* C15: every backoff wait of a safeAxiosGet call is followed by another
\* attempt: a call that fails after its `retries` attempts has waited
\* retries - 1 times, and does not wait after its last rate-limited attempt.
BackoffOnlyBetweenAttempts ==
    \A x \in CallSet :
        LET t == Call(x[1], x[2])
        IN  /\ t.pc = "sleep" => t.calls < retries
            /\ t.err.kind = "FailedAfterRetries" => t.waits = retries - 1

InFlight(t) == t.pc \in {"await", "sleep"}

\* C16: in every step the cache keeps every key it has; an entry is created or
\* changed only in a step in which a call for that key receives a successful
\* response, and then holds that call's response; a step in which a call is
\* rate-limited, fails or exhausts its retries leaves the cache unchanged.
CacheWrittenOnlyOnSuccess ==
    [][/\ DOMAIN cache \subseteq DOMAIN cache'
       /\ \A u \in DOMAIN cache' :
              (u \notin DOMAIN cache \/ cache'[u] # cache[u])
              => \E x \in CallSet :
                     /\ Call(x[1], x[2]).pc = "await" /\ Call(x[1], x[2]).url = u
                     /\ fetch'[x[1]][x[2]].pc = "returned"
                     /\ fetch'[x[1]][x[2]].last = 200
                     /\ succeeded'[u] = succeeded[u] + 1
                     /\ cache'[u] = fetch'[x[1]][x[2]].res
       /\ \A x \in CallSet :
              (/\ fetch'[x[1]][x[2]] # Call(x[1], x[2])
               /\ fetch'[x[1]][x[2]].pc \in {"sleep", "thrown"})
              => cache' = cache]_vars
CacheWrittenOnlyOnSuccessWitness ==
    \E x \in CallSet, y \in CallSet, z \in CallSet :
        /\ Call(x[1], x[2]).pc = "returned" /\ Call(x[1], x[2]).last = 200
        /\ cache[Call(x[1], x[2]).url] = Call(x[1], x[2]).res
        /\ Call(y[1], y[2]).pc = "thrown" /\ Call(y[1], y[2]).err.kind = "AxiosError"
        /\ Call(z[1], z[2]).pc = "sleep"
        /\ DOMAIN cache = {Call(x[1], x[2]).url}

\* C17: once an interaction has been replied to, its calls still in flight go on
\* as before: a response that succeeds makes the call return and is stored in
\* the cache, a 429 starts its backoff, another failure is thrown as it is, and
\* a timer leads to the next attempt or to exhaustion; the step that replies to
\* the interaction changes none of its other calls; and a call that starts
\* when the cache holds its url returns the cached response without axios.get.
SiblingsRunToCompletion ==
    [][/\ \A x \in CallSet :
              LET c == x[1]
                  t == Call(x[1], x[2])
                  t2 == fetch'[x[1]][x[2]]
              IN  /\ (handler[c].replies # <<>> /\ t.pc = "await" /\ t2 # t)
                      => /\ t2.calls = t.calls
                         /\ t2.pc \in {"returned", "sleep", "thrown"}
                         /\ succeeded'[t.url] # succeeded[t.url]
                                => /\ t2.pc = "returned" /\ t2.last = 200
                                   /\ CacheHas(cache', t.url)
                                   /\ CacheGet(cache', t.url) = t2.res
                         /\ t2.pc = "sleep" => t2.last = 429 /\ t2.waits = t.waits + 1
                         /\ t2.pc = "thrown" => /\ t2.err.kind = "AxiosError"
                                                /\ t2.err.code = t2.last
                                                /\ t2.last \notin {200, 429}
                  /\ (handler[c].replies # <<>> /\ t.pc = "sleep" /\ t2 # t)
                      => /\ t2.i = t.i + 1
                         /\ t2.pc = IF t2.i >= retries THEN "thrown"
                                    ELSE IF CacheHas(cache, t.url) THEN "returned"
                                    ELSE "await"
                  /\ (handler[c].pc = "promiseAll" /\ handler'[c].replies # <<>>
                      /\ InFlight(t))
                      => (t2 = t \/ Finished(t2))
                  /\ (Starts(x[1], x[2]) /\ CacheHas(cache, t2.url))
                      => /\ t2.pc = "returned" /\ t2.calls = 0
                         /\ t2.res = CacheGet(cache, t2.url)
       /\ \A c \in Checks :
              (handler[c].pc = "promiseAll" /\ handler'[c].replies # <<>>)
              => Cardinality({k \in KindSet : fetch'[c][k] # fetch[c][k]}) = 1]_vars
SiblingsRunToCompletionWitness ==
    \E c \in Checks, d \in Checks, k \in KindSet :
        LET h == handler[c]
            t == Call(c, k)
        IN  /\ c # d
            /\ h.pc = "done" /\ h.replies[Len(h.replies)].kind = "error"
            /\ Len(h.order) >= 2
            /\ Call(c, h.order[1]).pc = "thrown"
            /\ \E n \in 2..Len(h.order) : h.order[n] = k
            /\ t.pc = "returned" /\ t.last = 200 /\ t.waits >= 1
            /\ CacheGet(cache, t.url) = t.res
            /\ Call(d, k).url = t.url
            /\ Call(d, k).pc = "returned" /\ Call(d, k).calls = 0

\* C18: when the backoff timer of a call fires and attempts remain, the call
\* consults the cache again: if the cache holds its url by then, it returns the
\* cached response and no axios.get is issued; otherwise it calls axios.get.
CacheRecheckOnRetry ==
    [][\A x \in CallSet :
          LET t == Call(x[1], x[2])
              t2 == fetch'[x[1]][x[2]]
          IN  (t.pc = "sleep" /\ t2 # t /\ t.i + 1 < retries)
              => IF CacheHas(cache, t.url)
                 THEN /\ t2.pc = "returned" /\ t2.res = CacheGet(cache, t.url)
                      /\ t2.calls = t.calls
                      /\ issued' = issued
                 ELSE /\ t2.pc = "await" /\ t2.calls = t.calls + 1
                      /\ issued'[t.url] = issued[t.url] + 1]_vars
CacheRecheckOnRetryWitness ==
    \E x \in CallSet, y \in CallSet :
        /\ x[1] # y[1]
        /\ Call(x[1], x[2]).pc = "returned"
        /\ Call(x[1], x[2]).last = 429
        /\ Call(x[1], x[2]).waits = 2 /\ Call(x[1], x[2]).calls = 2
        /\ Call(y[1], y[2]).url = Call(x[1], x[2]).url
        /\ Call(y[1], y[2]).pc = "returned" /\ Call(y[1], y[2]).last = 200
        /\ Call(x[1], x[2]).res = Call(y[1], y[2]).res

\* C19: the three calls of a fan-out are made in the order details, friends,
\* groups, each for its own url; and whatever order they settle in, an embed's
\* name and account age come from the response to the details call, its friend
\* count from the response to the friends call and its group count from the
\* response to the groups call.
FanOutAssociation ==
    \A c \in Checks :
        LET h == handler[c]
            id == h.userId
        IN  /\ h.started # <<>> =>
                /\ h.started = <<<<"details", id>>, <<"friends", id>>, <<"groups", id>>>>
                /\ \A k \in KindSet : Call(c, k).url = <<k, id>>
            /\ \A n \in 1..Len(h.replies) :
                   h.replies[n].kind = "embed" =>
                       LET e == h.replies[n].embed
                       IN  /\ \A k \in KindSet : Call(c, k).res.url = <<k, id>>
                           /\ e.title = id
                           /\ e.accountAge =
                                  calculateAccountAge(Call(c, "details").res.body, NowMs)
                           /\ e.friendsCount = Call(c, "friends").res.body
                           /\ e.groupsCount = Call(c, "groups").res.body
FanOutAssociationWitness ==
    \E c \in Checks :
        LET h == handler[c]
        IN  /\ h.pc = "done" /\ h.replies[Len(h.replies)].kind = "embed"
            /\ h.order = <<"groups", "friends", "details">>
            /\ Call(c, "friends").res.body # Call(c, "groups").res.body

====
